---- MODULE Spec2Model ----
(***************************************************************************)
(* The indexed repositories of backend/src/entities.rs: three primary      *)
(* stores (CHAT_MESSAGE, CONVERSATION, USER), one secondary index and one   *)
(* serial id cell per store, and the clock the repositories stamp with.    *)
(* Every repository call runs to completion, so each call is one action.   *)
(* Reads (get, find, paged_list, peek_next_id, get_user) are operators on  *)
(* the current state; writes are actions that also record their result in  *)
(* ret.                                                                     *)
(***************************************************************************)
EXTENDS Integers, Sequences, FiniteSets, TLC

\* ------------------------------------------------------------------ bounds
\* How many state-changing calls (writes, id draws, clock advances) a run of
\* the model makes: on the three repositories together, and on one of them
\* alone.  They cap every serial id and the clock, which move by one per
\* counted call.
MaxCalls == 3
MaxRepoCalls == 4

\* Stand-in for u64::MAX (MessageId::MAX, Timestamp::MAX, ConversationId::MAX,
\* UserId::MAX): the largest integer TLC represents.  Every id and timestamp
\* of the model is far below it, so it is only ever used as a range end and
\* as the value an unchecked `0 - 1` wraps to.
U64Max == 2147483647

\* --------------------------------------------------------- caller inputs
ConversationIds == 1 .. 2
UserIds == 1 .. 2
Principals == 1 .. 2
\* (content, role) of a caller's message; (fullname, resume) of a user.
Payloads == {<<"one", "user">>, <<"two", "assistant">>}
Names == {"n1", "n2"}
Profiles == {<<"fulan", "r1">>, <<"fulanah", "r2">>}

\* Option<T>: None is the empty sequence, Some(x) the one-element sequence.
None == <<>>
Some(x) == <<x>>
\* RepositoryResult<T>, and the plain value of a call that returns no Result.
\* Every result is a pair <<tag, value>>; read the tag before the value.
Ok(v) == <<"Ok", v>>
Err(e) == <<"Err", e>>
Val(v) == <<"Val", v>>
NotFound == Err("NotFound")
IllegalUpdate == Err("IllegalUpdate")
IsOk(r) == r[1] = "Ok"
IsErr(r, e) == r[1] = "Err" /\ r[2] = e[2]
\* ret when the last step was no repository call.
NoCall == [op |-> "none", res |-> Val(0)]

\* No caller is paging.
NoScan ==
    [phase |-> "idle", conversation |-> 0, limit |-> 0, cursor |-> None,
     first |-> {}, seen |-> <<>>]

VARIABLES
    cfg_test,                        \* TRUE: the cfg(test) build (mock_ic0 clock)
    TIMESTAMP,                       \* the clock behind timestamp()
    NEXT_CHAT_MESSAGE_ID, CHAT_MESSAGE, CHAT_MESSAGE_CONVERSATION_INDEX,
    NEXT_CONVERSATION_ID, CONVERSATION, CONVERSATION_USER_INDEX,
    NEXT_USER_ID, USER, USER_PRINCIPAL_INDEX,
    ret,                             \* the write call of the last step, and its result
    scan,                            \* a caller paging through a conversation's messages
    calls_left                       \* how many more calls may change the state

clockVars == <<cfg_test, TIMESTAMP>>
msgVars == <<NEXT_CHAT_MESSAGE_ID, CHAT_MESSAGE, CHAT_MESSAGE_CONVERSATION_INDEX>>
convVars == <<NEXT_CONVERSATION_ID, CONVERSATION, CONVERSATION_USER_INDEX>>
userVars == <<NEXT_USER_ID, USER, USER_PRINCIPAL_INDEX>>
vars == <<clockVars, msgVars, convVars, userVars, ret, scan, calls_left>>

\* ------------------------------------------------------------- the clock
\* timestamp(): the value a call reads ...
timestamp == TIMESTAMP
\* ... and the clock it leaves: mock_ic0::timestamp advances its cell on every
\* read; ic_cdk::api::time() is constant while one message executes.
TimestampRead == TIMESTAMP' = IF cfg_test THEN TIMESTAMP + 1 ELSE TIMESTAMP

\* A call that changes the state counts against the length of the run; a call
\* that fails, or finds nothing to do, leaves everything as it was.
Counted == calls_left > 0 /\ calls_left' = calls_left - 1
Uncounted == UNCHANGED calls_left

\* ------------------------------------------------------ map conveniences
\* StableBTreeMap::insert / remove on a primary store (a function id -> entity).
MapInsert(m, k, v) == [x \in DOMAIN m \cup {k} |-> IF x = k THEN v ELSE m[x]]
MapRemove(m, k) == [x \in DOMAIN m \ {k} |-> m[x]]
MapGet(m, k) == IF k \in DOMAIN m THEN Some(m[k]) ELSE None
\* take(n) that stops one element late.
TakeOneMore(s, n) == SubSeq(s, 1, IF n + 1 < Len(s) THEN n + 1 ELSE Len(s))

\* Iterator::take(n).
Take(s, n) == SubSeq(s, 1, IF n < Len(s) THEN n ELSE Len(s))
\* A cursor used as it comes, without the step below it.
NoSub(c) == c

\* c.saturating_sub(1) on u64.
SaturatingSub1(c) == IF c = 0 THEN 0 ELSE c - 1

\* =============================================================== messages
Message(id, conversation, payload, ts) ==
    [id |-> id, conversation |-> conversation, content |-> payload[1],
     timestamp |-> ts, role |-> payload[2]]

\* What a caller can pass as a Message: any id and timestamp.
MessageArgs ==
    {Message(i, c, p, t) : i \in 1 .. MaxRepoCalls + 1, c \in ConversationIds,
                           p \in Payloads, t \in {123}}

\* An order that looks at the reversed id alone.
MsgKeyLeqIdOnly(a, b) == a[2] >= b[2]

\* Ord of (ConversationId, Reverse<MessageId>): conversation ascending, then
\* id descending.
MsgKeyLeq(a, b) == a[1] < b[1] \/ (a[1] = b[1] /\ a[2] >= b[2])

RECURSIVE MsgKeysAscending(_)
MsgKeysAscending(S) ==
    IF S = {} THEN <<>>
    ELSE LET k == CHOOSE x \in S : \A y \in S : MsgKeyLeq(x, y)
         IN <<k>> \o MsgKeysAscending(S \ {k})

\* m.range(start..=end) on CHAT_MESSAGE_CONVERSATION_INDEX: the keys k with
\* start <= k <= end, ascending (none when start > end).
MsgIndexRange(index, start, end) ==
    MsgKeysAscending({k \in index : MsgKeyLeq(start, k) /\ MsgKeyLeq(k, end)})

\* MessageConversationIndexRepository::find, on a value of the index
MessageFindIn(index, conversation, cursor, limit) ==
    LET last_id == IF cursor = None THEN U64Max ELSE SaturatingSub1(cursor[1])
        start == <<conversation, last_id>>
        end == <<conversation, 1>>
        keys == MsgIndexRange(index, start, end)
        taken == IF limit = 0 THEN keys ELSE Take(keys, limit)
    IN [i \in 1 .. Len(taken) |-> taken[i][2]]

\* MessageConversationIndexRepository::find
MessageFind(conversation, cursor, limit) ==
    MessageFindIn(CHAT_MESSAGE_CONVERSATION_INDEX, conversation, cursor, limit)

\* MessageRepository::get
MessageGet(id) == MapGet(CHAT_MESSAGE, id)

\* ids.iter().filter_map(|id| get(id)).collect_vec()
RECURSIVE FilterMapGet(_, _)
FilterMapGet(ids, store) ==
    IF ids = <<>> THEN <<>>
    ELSE (IF Head(ids) \in DOMAIN store THEN <<store[Head(ids)]>> ELSE <<>>)
         \o FilterMapGet(Tail(ids), store)

\* The id of the first item instead of the last.
FirstId(items) == IF items = <<>> THEN None ELSE Some(items[1].id)

\* messages.last().map(|m| m.id)
LastId(items) == IF items = <<>> THEN None ELSE Some(items[Len(items)].id)

\* MessageRepository::paged_list on values of the store and the index:
\* <<next cursor, items>>
MessagePagedListIn(store, index, conversation, cursor, limit) ==
    LET messages ==
            FilterMapGet(MessageFindIn(index, conversation, cursor, limit), store)
    IN <<LastId(messages), messages>>

\* MessageRepository::paged_list
MessagePagedList(conversation, cursor, limit) ==
    MessagePagedListIn(CHAT_MESSAGE, CHAT_MESSAGE_CONVERSATION_INDEX,
                       conversation, cursor, limit)

\* SerialIdRepository::peek_next_id for MessageRepository
MessagePeekNextId == NEXT_CHAT_MESSAGE_ID

\* remove_indexes that drops every key of the value's conversation.
MessageRemoveIndexesOfConversation(index, value) ==
    {k \in index : k[1] # value.conversation}

\* IndexedRepository<Message>::remove_indexes / add_indexes on an index value
MessageRemoveIndexes(index, value) == index \ {<<value.conversation, value.id>>}
MessageAddIndexes(index, value) == index \cup {<<value.conversation, value.id>>}

\* IndexedRepository::save_indexes
MessageSaveIndexes(index, value, old_value) ==
    MessageAddIndexes(
        IF old_value # None THEN MessageRemoveIndexes(index, old_value[1]) ELSE index,
        value)

\* next_id that returns the cell's new value instead of the one it replaced.
MessageNextIdReturnsNew ==
    /\ Counted
    /\ NEXT_CHAT_MESSAGE_ID' = NEXT_CHAT_MESSAGE_ID + 1
    /\ ret' = [op |-> "message.next_id", res |-> Val(NEXT_CHAT_MESSAGE_ID + 1)]
    /\ UNCHANGED <<CHAT_MESSAGE, CHAT_MESSAGE_CONVERSATION_INDEX>>
    /\ UNCHANGED <<scan, clockVars, convVars, userVars>>

\* SerialIdRepository::next_id called on its own (it is a public method).
MessageNextId ==
    /\ Counted
    /\ NEXT_CHAT_MESSAGE_ID' = NEXT_CHAT_MESSAGE_ID + 1
    /\ ret' = [op |-> "message.next_id", res |-> Val(NEXT_CHAT_MESSAGE_ID)]
    /\ UNCHANGED <<CHAT_MESSAGE, CHAT_MESSAGE_CONVERSATION_INDEX>>
    /\ UNCHANGED <<scan, clockVars, convVars, userVars>>

\* insert that stamps the clock but stores under the id of its argument.
MessageInsertTrustsId(arg) ==
    /\ Counted
    /\ LET msg == [arg EXCEPT !.timestamp = timestamp]
           prev == MapGet(CHAT_MESSAGE, msg.id)
       IN /\ NEXT_CHAT_MESSAGE_ID' = NEXT_CHAT_MESSAGE_ID + 1
          /\ TimestampRead
          /\ CHAT_MESSAGE' = MapInsert(CHAT_MESSAGE, msg.id, msg)
          /\ CHAT_MESSAGE_CONVERSATION_INDEX' =
                 MessageSaveIndexes(CHAT_MESSAGE_CONVERSATION_INDEX, msg, prev)
          /\ ret' = [op |-> "message.insert", res |-> Ok(msg)]
    /\ UNCHANGED <<scan, cfg_test, convVars, userVars>>

\* insert that is left between its primary write and its index write.
MessageInsertPrimaryOnly(arg) ==
    /\ Counted
    /\ LET msg == [arg EXCEPT !.id = NEXT_CHAT_MESSAGE_ID, !.timestamp = timestamp]
       IN /\ NEXT_CHAT_MESSAGE_ID' = NEXT_CHAT_MESSAGE_ID + 1
          /\ TimestampRead
          /\ CHAT_MESSAGE' = MapInsert(CHAT_MESSAGE, msg.id, msg)
          /\ UNCHANGED CHAT_MESSAGE_CONVERSATION_INDEX
          /\ ret' = [op |-> "message.insert", res |-> Ok(msg)]
    /\ UNCHANGED <<scan, cfg_test, convVars, userVars>>

\* MessageRepository::insert
MessageInsert(arg) ==
    /\ Counted
    /\ LET msg == [arg EXCEPT !.id = NEXT_CHAT_MESSAGE_ID, !.timestamp = timestamp]
           prev == MapGet(CHAT_MESSAGE, msg.id)
       IN /\ NEXT_CHAT_MESSAGE_ID' = NEXT_CHAT_MESSAGE_ID + 1
          /\ TimestampRead
          /\ CHAT_MESSAGE' = MapInsert(CHAT_MESSAGE, msg.id, msg)
          /\ CHAT_MESSAGE_CONVERSATION_INDEX' =
                 MessageSaveIndexes(CHAT_MESSAGE_CONVERSATION_INDEX, msg, prev)
          /\ ret' = [op |-> "message.insert", res |-> Ok(msg)]
    /\ UNCHANGED <<scan, cfg_test, convVars, userVars>>

\* An update like the other repositories': it writes over a stored message.
MessageUpdateWrites(arg) ==
    /\ IF MessageGet(arg.id) = None
       THEN /\ ret' = [op |-> "message.update", res |-> NotFound]
            /\ UNCHANGED <<CHAT_MESSAGE, CHAT_MESSAGE_CONVERSATION_INDEX>>
       ELSE /\ CHAT_MESSAGE' = MapInsert(CHAT_MESSAGE, arg.id, arg)
            /\ CHAT_MESSAGE_CONVERSATION_INDEX' =
                   MessageSaveIndexes(CHAT_MESSAGE_CONVERSATION_INDEX, arg,
                                      MessageGet(arg.id))
            /\ ret' = [op |-> "message.update", res |-> Ok(arg)]
    /\ Uncounted
    /\ UNCHANGED <<scan, NEXT_CHAT_MESSAGE_ID, clockVars, convVars, userVars>>

\* MessageRepository::update
MessageUpdate(arg) ==
    /\ ret' = [op |-> "message.update", res |-> IllegalUpdate]
    /\ Uncounted
    /\ UNCHANGED <<scan, clockVars, msgVars, convVars, userVars>>

\* The store and index after MessageRepository::delete(id), and its result.
MessageDeleted(store, index, id) ==
    LET old == MapGet(store, id)
    IN IF old = None
       THEN [store |-> store, index |-> index, res |-> NotFound]
       ELSE [store |-> MapRemove(store, id),
             index |-> MessageRemoveIndexes(index, old[1]),
             res |-> Ok(id)]

\* MessageRepository::delete
MessageDelete(id) ==
    /\ LET d == MessageDeleted(CHAT_MESSAGE, CHAT_MESSAGE_CONVERSATION_INDEX, id)
       IN /\ CHAT_MESSAGE' = d.store
          /\ CHAT_MESSAGE_CONVERSATION_INDEX' = d.index
          /\ ret' = [op |-> "message.delete", res |-> d.res]
          /\ IF IsOk(d.res) THEN Counted ELSE Uncounted
    /\ UNCHANGED <<scan, NEXT_CHAT_MESSAGE_ID, clockVars, convVars, userVars>>

\* The deletes of MessageDeleteEach with the deleted ids collected last first.
RECURSIVE MessageDeleteEachReversed(_, _, _)
MessageDeleteEachReversed(ids, store, index) ==
    IF ids = <<>> THEN [store |-> store, index |-> index, deleted_ids |-> <<>>]
    ELSE LET d == MessageDeleted(store, index, Head(ids))
             rest == MessageDeleteEachReversed(Tail(ids), d.store, d.index)
         IN [rest EXCEPT !.deleted_ids =
                @ \o (IF IsOk(d.res) THEN <<Head(ids)>> ELSE <<>>)]

\* ids.iter().filter_map(|id| self.delete(id).ok()): one delete after the
\* other, keeping the ids whose delete returned Ok.
RECURSIVE MessageDeleteEach(_, _, _)
MessageDeleteEach(ids, store, index) ==
    IF ids = <<>> THEN [store |-> store, index |-> index, deleted_ids |-> <<>>]
    ELSE LET d == MessageDeleted(store, index, Head(ids))
             rest == MessageDeleteEach(Tail(ids), d.store, d.index)
         IN [rest EXCEPT !.deleted_ids =
                (IF IsOk(d.res) THEN <<Head(ids)>> ELSE <<>>) \o @]

\* MessageRepository::delete_by_conversation
MessageDeleteByConversation(conversation) ==
    /\ LET r == MessageDeleteEach(MessageFind(conversation, None, 0),
                                  CHAT_MESSAGE, CHAT_MESSAGE_CONVERSATION_INDEX)
       IN /\ CHAT_MESSAGE' = r.store
          /\ CHAT_MESSAGE_CONVERSATION_INDEX' = r.index
          /\ ret' = [op |-> "message.delete_by_conversation",
                     res |-> Ok(r.deleted_ids)]
          /\ IF r.deleted_ids = <<>> THEN Uncounted ELSE Counted
    /\ UNCHANGED <<scan, NEXT_CHAT_MESSAGE_ID, clockVars, convVars, userVars>>

\* =========================================================== conversations
Conversation(id, user, updated_at, name) ==
    [id |-> id, user |-> user, updated_at |-> updated_at, name |-> name]

\* What a caller can pass as a Conversation: any id and updated_at.
ConversationArgs ==
    {Conversation(i, u, t, n) : i \in 1 .. MaxRepoCalls + 1, u \in UserIds,
                                t \in {1234567890}, n \in Names}

\* Ord of (UserId, Reverse<Timestamp>, ConversationId): user ascending, then
\* updated_at descending, then id ascending.
ConvKeyLeq(a, b) ==
    \/ a[1] < b[1]
    \/ a[1] = b[1] /\ a[2] > b[2]
    \/ a[1] = b[1] /\ a[2] = b[2] /\ a[3] <= b[3]

RECURSIVE ConvKeysAscending(_)
ConvKeysAscending(S) ==
    IF S = {} THEN <<>>
    ELSE LET k == CHOOSE x \in S : \A y \in S : ConvKeyLeq(x, y)
         IN <<k>> \o ConvKeysAscending(S \ {k})

\* m.range(start..=end) on CONVERSATION_USER_INDEX
ConvIndexRange(start, end) ==
    ConvKeysAscending({k \in CONVERSATION_USER_INDEX :
                          ConvKeyLeq(start, k) /\ ConvKeyLeq(k, end)})

\* `ts - 1` on u64 with ts = 0: a build with overflow checks panics there ...
ConversationFindPanics(cursor, overflow_checks) ==
    overflow_checks /\ cursor = Some(0)
\* ... and a build without them wraps to u64::MAX.
WrappingSub1(ts) == IF ts = 0 THEN U64Max ELSE ts - 1

\* find that hands its limit to take() as it comes, zero included.
ConversationFindTakesLimit(user_id, cursor, limit) ==
    LET ts == IF cursor = None THEN U64Max ELSE WrappingSub1(cursor[1])
        start == <<user_id, ts, 0>>
        end == <<user_id, 0, U64Max>>
        keys == ConvIndexRange(start, end)
        taken == Take(keys, limit)
    IN [i \in 1 .. Len(taken) |-> taken[i][3]]

\* ConversationUserIndexRepository::find, when it returns
ConversationFind(user_id, cursor, limit) ==
    LET ts == IF cursor = None THEN U64Max ELSE WrappingSub1(cursor[1])
        start == <<user_id, ts, 0>>
        end == <<user_id, 0, U64Max>>
        keys == ConvIndexRange(start, end)
        taken == IF limit = 0 THEN keys ELSE Take(keys, limit)
    IN [i \in 1 .. Len(taken) |-> taken[i][3]]

\* ConversationRepository::get
ConversationGet(id) == MapGet(CONVERSATION, id)

\* ConversationRepository::paged_list, when it returns: <<next cursor, items>>
ConversationPagedList(user_id, cursor, limit) ==
    LET conv == FilterMapGet(ConversationFind(user_id, cursor, limit), CONVERSATION)
    IN <<LastId(conv), conv>>

\* SerialIdRepository::peek_next_id for ConversationRepository
ConversationPeekNextId == NEXT_CONVERSATION_ID

\* IndexedRepository<Conversation>::remove_indexes / add_indexes
ConversationRemoveIndexes(index, conv) ==
    index \ {<<conv.user, conv.updated_at, conv.id>>}
ConversationAddIndexes(index, conv) ==
    index \cup {<<conv.user, conv.updated_at, conv.id>>}

\* save_indexes that forgets to remove the entry of the old value.
ConversationSaveIndexesKeepsOld(index, value, old_value) ==
    ConversationAddIndexes(index, value)

\* IndexedRepository::save_indexes
ConversationSaveIndexes(index, value, old_value) ==
    ConversationAddIndexes(
        IF old_value # None THEN ConversationRemoveIndexes(index, old_value[1])
        ELSE index,
        value)

\* next_id that draws the conversation ids from the message id cell.
ConversationNextIdShared ==
    /\ Counted
    /\ NEXT_CHAT_MESSAGE_ID' = NEXT_CHAT_MESSAGE_ID + 1
    /\ NEXT_CONVERSATION_ID' = NEXT_CHAT_MESSAGE_ID + 1
    /\ ret' = [op |-> "conversation.next_id", res |-> Val(NEXT_CHAT_MESSAGE_ID)]
    /\ UNCHANGED <<CHAT_MESSAGE, CHAT_MESSAGE_CONVERSATION_INDEX>>
    /\ UNCHANGED <<CONVERSATION, CONVERSATION_USER_INDEX>>
    /\ UNCHANGED <<scan, clockVars, userVars>>

\* SerialIdRepository::next_id called on its own.
ConversationNextId ==
    /\ Counted
    /\ NEXT_CONVERSATION_ID' = NEXT_CONVERSATION_ID + 1
    /\ ret' = [op |-> "conversation.next_id", res |-> Val(NEXT_CONVERSATION_ID)]
    /\ UNCHANGED <<CONVERSATION, CONVERSATION_USER_INDEX>>
    /\ UNCHANGED <<scan, clockVars, msgVars, userVars>>

\* The body of ConversationRepository::insert, returning under the name op.
ConversationInsertAs(op, arg) ==
    /\ Counted
    /\ LET conversation ==
               [arg EXCEPT !.id = NEXT_CONVERSATION_ID, !.updated_at = timestamp]
           prev == MapGet(CONVERSATION, conversation.id)
       IN /\ NEXT_CONVERSATION_ID' = NEXT_CONVERSATION_ID + 1
          /\ TimestampRead
          /\ CONVERSATION' = MapInsert(CONVERSATION, conversation.id, conversation)
          /\ CONVERSATION_USER_INDEX' =
                 ConversationSaveIndexes(CONVERSATION_USER_INDEX, conversation, prev)
          /\ ret' = [op |-> op, res |-> Ok(conversation)]
    /\ UNCHANGED <<scan, cfg_test, msgVars, userVars>>

\* update without the comparison of the stored user with the incoming one.
ConversationUpdateAsUnpinned(op, arg) ==
    LET old_conv == ConversationGet(arg.id)
    IN IF old_conv = None
       THEN /\ ret' = [op |-> op, res |-> NotFound]
            /\ UNCHANGED calls_left
            /\ UNCHANGED <<scan, clockVars, msgVars, convVars, userVars>>
       ELSE /\ calls_left > 0 /\ calls_left' = calls_left - 1
            /\ LET conversation == [arg EXCEPT !.updated_at = timestamp]
               IN /\ TimestampRead
                  /\ CONVERSATION' =
                         MapInsert(CONVERSATION, conversation.id, conversation)
                  /\ CONVERSATION_USER_INDEX' =
                         ConversationSaveIndexes(CONVERSATION_USER_INDEX,
                                                 conversation, old_conv)
                  /\ ret' = [op |-> op, res |-> Ok(conversation)]
            /\ UNCHANGED <<scan, cfg_test, NEXT_CONVERSATION_ID, msgVars, userVars>>

\* The body of ConversationRepository::update, returning under the name op.
ConversationUpdateAs(op, arg) ==
    LET old_conv == ConversationGet(arg.id)
    IN IF old_conv = None
       THEN /\ ret' = [op |-> op, res |-> NotFound]
            /\ Uncounted
            /\ UNCHANGED <<scan, clockVars, msgVars, convVars, userVars>>
       ELSE IF old_conv[1].user # arg.user
       THEN /\ ret' = [op |-> op, res |-> IllegalUpdate]
            /\ Uncounted
            /\ UNCHANGED <<scan, clockVars, msgVars, convVars, userVars>>
       ELSE /\ Counted
            /\ LET conversation == [arg EXCEPT !.updated_at = timestamp]
                   prev == MapGet(CONVERSATION, conversation.id)
               IN /\ TimestampRead
                  /\ CONVERSATION' =
                         MapInsert(CONVERSATION, conversation.id, conversation)
                  /\ CONVERSATION_USER_INDEX' =
                         ConversationSaveIndexes(CONVERSATION_USER_INDEX,
                                                 conversation, prev)
                  /\ ret' = [op |-> op, res |-> Ok(conversation)]
            /\ UNCHANGED <<scan, cfg_test, NEXT_CONVERSATION_ID, msgVars, userVars>>

\* ConversationRepository::insert
ConversationInsert(arg) == ConversationInsertAs("conversation.insert", arg)

\* ConversationRepository::update
ConversationUpdate(arg) == ConversationUpdateAs("conversation.update", arg)

\* ConversationRepository::upsert
ConversationUpsert(arg) ==
    IF ConversationGet(arg.id) # None
    THEN ConversationUpdateAs("conversation.upsert", arg)
    ELSE ConversationInsertAs("conversation.upsert", arg)

\* delete that answers Ok for an id the store does not hold.
ConversationDeleteIdempotent(id) ==
    /\ LET old == MapGet(CONVERSATION, id)
       IN IF old = None
          THEN /\ ret' = [op |-> "conversation.delete", res |-> Ok(id)]
               /\ Uncounted
               /\ UNCHANGED <<CONVERSATION, CONVERSATION_USER_INDEX>>
          ELSE /\ CONVERSATION' = MapRemove(CONVERSATION, id)
               /\ CONVERSATION_USER_INDEX' =
                      ConversationRemoveIndexes(CONVERSATION_USER_INDEX, old[1])
               /\ ret' = [op |-> "conversation.delete", res |-> Ok(id)]
               /\ Counted
    /\ UNCHANGED <<scan, NEXT_CONVERSATION_ID, clockVars, msgVars, userVars>>

\* delete that also deletes the messages of the conversation.
ConversationDeleteCascades(id) ==
    /\ LET old == MapGet(CONVERSATION, id)
           r == MessageDeleteEach(MessageFind(id, None, 0), CHAT_MESSAGE,
                                  CHAT_MESSAGE_CONVERSATION_INDEX)
       IN IF old = None
          THEN /\ ret' = [op |-> "conversation.delete", res |-> NotFound]
               /\ Uncounted
               /\ UNCHANGED <<CONVERSATION, CONVERSATION_USER_INDEX>>
               /\ UNCHANGED <<CHAT_MESSAGE, CHAT_MESSAGE_CONVERSATION_INDEX>>
          ELSE /\ CONVERSATION' = MapRemove(CONVERSATION, id)
               /\ CONVERSATION_USER_INDEX' =
                      ConversationRemoveIndexes(CONVERSATION_USER_INDEX, old[1])
               /\ CHAT_MESSAGE' = r.store
               /\ CHAT_MESSAGE_CONVERSATION_INDEX' = r.index
               /\ ret' = [op |-> "conversation.delete", res |-> Ok(id)]
               /\ Counted
    /\ UNCHANGED <<scan, NEXT_CONVERSATION_ID, NEXT_CHAT_MESSAGE_ID, clockVars, userVars>>

\* ConversationRepository::delete
ConversationDelete(id) ==
    /\ LET old == MapGet(CONVERSATION, id)
       IN IF old = None
          THEN /\ ret' = [op |-> "conversation.delete", res |-> NotFound]
               /\ Uncounted
               /\ UNCHANGED <<CONVERSATION, CONVERSATION_USER_INDEX>>
          ELSE /\ CONVERSATION' = MapRemove(CONVERSATION, id)
               /\ CONVERSATION_USER_INDEX' =
                      ConversationRemoveIndexes(CONVERSATION_USER_INDEX, old[1])
               /\ ret' = [op |-> "conversation.delete", res |-> Ok(id)]
               /\ Counted
    /\ UNCHANGED <<scan, NEXT_CONVERSATION_ID, clockVars, msgVars, userVars>>

\* ================================================================== users
User(id, profile, identity) ==
    [id |-> id, fullname |-> profile[1], identity |-> identity, resume |-> profile[2]]

\* What a caller can pass as a User: any id.
UserArgs ==
    {User(i, p, q) : i \in 1 .. MaxRepoCalls + 1, p \in Profiles, q \in Principals}

\* Ord of (Principal, UserId): principal ascending, then id ascending.
UserKeyLeq(a, b) == a[1] < b[1] \/ (a[1] = b[1] /\ a[2] <= b[2])

RECURSIVE UserKeysAscending(_)
UserKeysAscending(S) ==
    IF S = {} THEN <<>>
    ELSE LET k == CHOOSE x \in S : \A y \in S : UserKeyLeq(x, y)
         IN <<k>> \o UserKeysAscending(S \ {k})

\* m.range(start..=end) on USER_PRINCIPAL_INDEX
UserIndexRange(start, end) ==
    UserKeysAscending({k \in USER_PRINCIPAL_INDEX :
                          UserKeyLeq(start, k) /\ UserKeyLeq(k, end)})

\* UserIdentityIndexRepository::find (cursor and limit are ignored)
UserFind(principal, cursor, limit) ==
    LET start == <<principal, 1>>
        end == <<principal, U64Max>>
        keys == UserIndexRange(start, end)
    IN [i \in 1 .. Len(keys) |-> keys[i][2]]

\* UserRepository::get
UserGet(id) == MapGet(USER, id)

\* get_user that keeps the first match of the walk instead of the last.
GetUserFirst(identity) ==
    LET found == FilterMapGet(UserFind(identity, None, 0), USER)
    IN IF found = <<>> THEN None ELSE Some(found[1])

\* IdentityProvider::get_user
GetUser(identity) ==
    LET found == FilterMapGet(UserFind(identity, None, 0), USER)
    IN IF found = <<>> THEN None ELSE Some(found[Len(found)])

\* SerialIdRepository::peek_next_id for UserRepository
UserPeekNextId == NEXT_USER_ID

\* IndexedRepository<User>::remove_indexes / add_indexes
UserRemoveIndexes(index, value) == index \ {<<value.identity, value.id>>}
UserAddIndexes(index, value) == index \cup {<<value.identity, value.id>>}

\* save_indexes that adds the new key and leaves the superseded one behind.
UserSaveIndexesKeepsOld(index, value, old_value) == UserAddIndexes(index, value)

\* IndexedRepository::save_indexes
UserSaveIndexes(index, value, old_value) ==
    UserAddIndexes(
        IF old_value # None THEN UserRemoveIndexes(index, old_value[1]) ELSE index,
        value)

\* SerialIdRepository::next_id called on its own.
UserNextId ==
    /\ Counted
    /\ NEXT_USER_ID' = NEXT_USER_ID + 1
    /\ ret' = [op |-> "user.next_id", res |-> Val(NEXT_USER_ID)]
    /\ UNCHANGED <<USER, USER_PRINCIPAL_INDEX>>
    /\ UNCHANGED <<scan, clockVars, msgVars, convVars>>

\* insert that reads the cell without advancing it.
UserInsertPeeksId(arg) ==
    /\ Counted
    /\ LET user == [arg EXCEPT !.id = NEXT_USER_ID]
           prev == MapGet(USER, user.id)
       IN /\ NEXT_USER_ID' = NEXT_USER_ID
          /\ USER' = MapInsert(USER, user.id, user)
          /\ USER_PRINCIPAL_INDEX' = UserSaveIndexes(USER_PRINCIPAL_INDEX, user, prev)
          /\ ret' = [op |-> "user.insert", res |-> Ok(user)]
    /\ UNCHANGED <<scan, clockVars, msgVars, convVars>>

\* UserRepository::insert
UserInsert(arg) ==
    /\ Counted
    /\ LET user == [arg EXCEPT !.id = NEXT_USER_ID]
           prev == MapGet(USER, user.id)
       IN /\ NEXT_USER_ID' = NEXT_USER_ID + 1
          /\ USER' = MapInsert(USER, user.id, user)
          /\ USER_PRINCIPAL_INDEX' = UserSaveIndexes(USER_PRINCIPAL_INDEX, user, prev)
          /\ ret' = [op |-> "user.insert", res |-> Ok(user)]
    /\ UNCHANGED <<scan, clockVars, msgVars, convVars>>

\* update that stores the user also when the id is absent.
UserUpdateCreates(user) ==
    /\ LET prev == MapGet(USER, user.id)
       IN /\ USER' = MapInsert(USER, user.id, user)
          /\ USER_PRINCIPAL_INDEX' =
                 UserSaveIndexes(USER_PRINCIPAL_INDEX, user, prev)
          /\ ret' = [op |-> "user.update", res |-> Ok(user)]
          /\ Counted
    /\ UNCHANGED <<scan, NEXT_USER_ID, clockVars, msgVars, convVars>>

\* UserRepository::update
UserUpdate(user) ==
    /\ IF UserGet(user.id) = None
       THEN /\ ret' = [op |-> "user.update", res |-> NotFound]
            /\ Uncounted
            /\ UNCHANGED <<USER, USER_PRINCIPAL_INDEX>>
       ELSE LET prev == MapGet(USER, user.id)
            IN /\ USER' = MapInsert(USER, user.id, user)
               /\ USER_PRINCIPAL_INDEX' =
                      UserSaveIndexes(USER_PRINCIPAL_INDEX, user, prev)
               /\ ret' = [op |-> "user.update", res |-> Ok(user)]
               /\ Counted
    /\ UNCHANGED <<scan, NEXT_USER_ID, clockVars, msgVars, convVars>>

\* UserRepository::delete
UserDelete(id) ==
    /\ LET old == MapGet(USER, id)
       IN IF old = None
          THEN /\ ret' = [op |-> "user.delete", res |-> NotFound]
               /\ Uncounted
               /\ UNCHANGED <<USER, USER_PRINCIPAL_INDEX>>
          ELSE /\ USER' = MapRemove(USER, id)
               /\ USER_PRINCIPAL_INDEX' = UserRemoveIndexes(USER_PRINCIPAL_INDEX, old[1])
               /\ ret' = [op |-> "user.delete", res |-> Ok(id)]
               /\ Counted
    /\ UNCHANGED <<scan, NEXT_USER_ID, clockVars, msgVars, convVars>>

\* ------------------------------------------------------- clear_indexes
\* IndexedRepository<Message>::clear_indexes: the index's clear(), clear_new
\* on CHAT_MESSAGE_CONVERSATION_INDEX.
MessageClearIndexes ==
    /\ Counted
    /\ CHAT_MESSAGE_CONVERSATION_INDEX' = {}
    /\ ret' = [op |-> "message.clear_indexes", res |-> Val(0)]
    /\ UNCHANGED <<NEXT_CHAT_MESSAGE_ID, CHAT_MESSAGE>>
    /\ UNCHANGED <<scan, clockVars, convVars, userVars>>

\* IndexedRepository<Conversation>::clear_indexes
ConversationClearIndexes ==
    /\ Counted
    /\ CONVERSATION_USER_INDEX' = {}
    /\ ret' = [op |-> "conversation.clear_indexes", res |-> Val(0)]
    /\ UNCHANGED <<NEXT_CONVERSATION_ID, CONVERSATION>>
    /\ UNCHANGED <<scan, clockVars, msgVars, userVars>>

\* A clear that empties the primary store with the index.
UserClearIndexesAndStore ==
    /\ Counted
    /\ USER_PRINCIPAL_INDEX' = {}
    /\ USER' = <<>>
    /\ ret' = [op |-> "user.clear_indexes", res |-> Val(0)]
    /\ UNCHANGED NEXT_USER_ID
    /\ UNCHANGED <<scan, clockVars, msgVars, convVars>>

\* IndexedRepository<User>::clear_indexes
UserClearIndexes ==
    /\ Counted
    /\ USER_PRINCIPAL_INDEX' = {}
    /\ ret' = [op |-> "user.clear_indexes", res |-> Val(0)]
    /\ UNCHANGED <<NEXT_USER_ID, USER>>
    /\ UNCHANGED <<scan, clockVars, msgVars, convVars>>

\* The clear_indexes of the three repositories.
ClearCall == MessageClearIndexes \/ ConversationClearIndexes \/ UserClearIndexes

\* ic time passes between two messages (production build only: the mock clock
\* moves on reads).
AdvanceTime ==
    /\ ~cfg_test
    /\ Counted
    /\ TIMESTAMP' = TIMESTAMP + 1
    /\ ret' = NoCall
    /\ UNCHANGED <<scan, cfg_test, msgVars, convVars, userVars>>

\* ------------------------------------------------------------------ system
\* The stores, serial cells and clock of a fresh canister.
Stores ==
    /\ cfg_test \in BOOLEAN
    /\ TIMESTAMP = IF cfg_test THEN 0 ELSE 1
    /\ NEXT_CHAT_MESSAGE_ID = 1
    /\ CHAT_MESSAGE = <<>>
    /\ CHAT_MESSAGE_CONVERSATION_INDEX = {}
    /\ NEXT_CONVERSATION_ID = 1
    /\ CONVERSATION = <<>>
    /\ CONVERSATION_USER_INDEX = {}
    /\ NEXT_USER_ID = 1
    /\ USER = <<>>
    /\ USER_PRINCIPAL_INDEX = {}
    /\ ret = NoCall
    /\ scan = NoScan

\* The ids a caller passes.  An insert overwrites the id of its argument and
\* a message update never reads it: id 1 is the generated id on the first
\* insert and a different one later.
InsertIds == {1}
\* The ids a call can target: those handed out so far, present or deleted,
\* and the next one, which no entity has.
TargetIds(next_id) == 1 .. next_id

\* ------------------------------------------------- a caller that pages
\* The page sizes of the paging caller.
PageLimits == 1 .. 2

\* The caller's state after a page: the next cursor is what it passes to the
\* next call, and a next cursor of none ends the scan.  `first` is the set of
\* messages of the conversation at the first call, `seen` the ids of all
\* pages so far, in the order returned.
Paged(conversation, limit, first, seen, page) ==
    [phase |-> IF page[1] = None THEN "done" ELSE "paging",
     conversation |-> conversation, limit |-> limit, cursor |-> page[1],
     first |-> first,
     seen |-> seen \o [i \in 1 .. Len(page[2]) |-> page[2][i].id]]

\* MessageRepository::paged_list(conversation, None, limit): the first page.
MessagePagedListFirst(conversation, limit) ==
    /\ scan.phase = "idle"
    /\ scan' = Paged(conversation, limit,
                     {id \in DOMAIN CHAT_MESSAGE :
                          CHAT_MESSAGE[id].conversation = conversation},
                     <<>>, MessagePagedList(conversation, None, limit))
    /\ UNCHANGED <<clockVars, msgVars, convVars, userVars, ret, calls_left>>

\* MessageRepository::paged_list(conversation, cursor, limit) with the cursor
\* the page before returned.
MessagePagedListNext ==
    /\ scan.phase = "paging"
    /\ scan' = Paged(scan.conversation, scan.limit, scan.first, scan.seen,
                     MessagePagedList(scan.conversation, scan.cursor, scan.limit))
    /\ UNCHANGED <<clockVars, msgVars, convVars, userVars, ret, calls_left>>

\* The calls of the paging caller.
PagingCall ==
    \/ \E c \in ConversationIds, limit \in PageLimits : MessagePagedListFirst(c, limit)
    \/ MessagePagedListNext

\* Every call on the message repository.
MessageCall ==
    \/ MessageNextId
    \/ \E arg \in MessageArgs : arg.id \in InsertIds /\ MessageInsert(arg)
    \/ \E arg \in MessageArgs : arg.id \in InsertIds /\ MessageUpdate(arg)
    \/ \E id \in TargetIds(NEXT_CHAT_MESSAGE_ID) : MessageDelete(id)
    \/ \E c \in ConversationIds : MessageDeleteByConversation(c)

\* Every call on the conversation repository.
ConversationCall ==
    \/ ConversationNextId
    \/ \E arg \in ConversationArgs : arg.id \in InsertIds /\ ConversationInsert(arg)
    \/ \E arg \in ConversationArgs :
           arg.id \in TargetIds(NEXT_CONVERSATION_ID) /\ ConversationUpdate(arg)
    \/ \E arg \in ConversationArgs :
           arg.id \in TargetIds(NEXT_CONVERSATION_ID) /\ ConversationUpsert(arg)
    \/ \E id \in TargetIds(NEXT_CONVERSATION_ID) : ConversationDelete(id)

\* Every call on the user repository.
UserCall ==
    \/ UserNextId
    \/ \E arg \in UserArgs : arg.id \in InsertIds /\ UserInsert(arg)
    \/ \E arg \in UserArgs : arg.id \in TargetIds(NEXT_USER_ID) /\ UserUpdate(arg)
    \/ \E id \in TargetIds(NEXT_USER_ID) : UserDelete(id)

Next == AdvanceTime \/ MessageCall \/ ConversationCall \/ UserCall

\* The three repositories share nothing but the clock: a run of calls on one
\* of them, the other two untouched.
MessageNext == AdvanceTime \/ MessageCall
ConversationNext == AdvanceTime \/ ConversationCall
UserNext == AdvanceTime \/ UserCall
\* The two repositories that list by cursor and limit.
ListingNext == AdvanceTime \/ MessageCall \/ ConversationCall
\* The two repositories whose update writes.
UpdatingNext == AdvanceTime \/ ConversationCall \/ UserCall
\* The message repository with a caller paging while other requests insert
\* and delete messages.
PagingNext ==
    \/ \E arg \in MessageArgs : arg.id \in InsertIds /\ MessageInsert(arg)
    \/ \E id \in TargetIds(NEXT_CHAT_MESSAGE_ID) : MessageDelete(id)
    \/ \E c \in ConversationIds : MessageDeleteByConversation(c)
    \/ PagingCall

\* The three repositories with the reset calls of their indexes.
ClearingNext == MessageCall \/ ConversationCall \/ UserCall \/ ClearCall

Init == Stores /\ calls_left = MaxCalls
RepoInit == Stores /\ calls_left = MaxRepoCalls

Spec == Init /\ [][Next]_vars
MessageSpec == RepoInit /\ [][MessageNext]_vars
ConversationSpec == RepoInit /\ [][ConversationNext]_vars
UserSpec == RepoInit /\ [][UserNext]_vars
ListingSpec == Init /\ [][ListingNext]_vars
UpdatingSpec == Init /\ [][UpdatingNext]_vars
PagingSpec == RepoInit /\ [][PagingNext]_vars
ClearingSpec == Init /\ [][ClearingNext]_vars

\* ================================================================= claims
Min(a, b) == IF a < b THEN a ELSE b
Values(m) == {m[k] : k \in DOMAIN m}
Ids(items) == [i \in 1 .. Len(items) |-> items[i].id]
StrictlyDescending(s) == \A i \in 1 .. Len(s) - 1 : s[i] > s[i + 1]
\* Cursors and limits a caller can pass to a paged_list.
Cursors == {None} \cup {Some(k) : k \in 0 .. MaxRepoCalls + 1}
Limits == 1 .. MaxRepoCalls + 1

\* C1: after any sequence of insert, update, upsert, delete and
\* delete_by_conversation calls, each secondary index holds exactly the keys
\* built from the current fields of the entities in its primary store: one
\* entry per stored entity, none for an absent entity or a superseded key.
C1_IndexMatchesPrimary ==
    /\ \A id \in DOMAIN CHAT_MESSAGE : CHAT_MESSAGE[id].id = id
    /\ \A id \in DOMAIN CONVERSATION : CONVERSATION[id].id = id
    /\ \A id \in DOMAIN USER : USER[id].id = id
    /\ CHAT_MESSAGE_CONVERSATION_INDEX =
           {<<m.conversation, m.id>> : m \in Values(CHAT_MESSAGE)}
    /\ CONVERSATION_USER_INDEX =
           {<<c.user, c.updated_at, c.id>> : c \in Values(CONVERSATION)}
    /\ USER_PRINCIPAL_INDEX = {<<u.identity, u.id>> : u \in Values(USER)}
    /\ Cardinality(CHAT_MESSAGE_CONVERSATION_INDEX) = Cardinality(DOMAIN CHAT_MESSAGE)
    /\ Cardinality(CONVERSATION_USER_INDEX) = Cardinality(DOMAIN CONVERSATION)
    /\ Cardinality(USER_PRINCIPAL_INDEX) = Cardinality(DOMAIN USER)

\* C1 witness: a conversation update has just moved an index entry (the
\* clock of the test build moves on every stamp), with a message stored too.
C1_Witness ==
    /\ cfg_test
    /\ ret.op = "conversation.update" /\ IsOk(ret.res)
    /\ ret.res[2].updated_at > 0
    /\ CHAT_MESSAGE # <<>>

\* The messages of conversation c a page may hold: all of them, or those with
\* an id below the cursor.
MessagesBelow(c, cursor) ==
    {id \in DOMAIN CHAT_MESSAGE :
        /\ CHAT_MESSAGE[id].conversation = c
        /\ cursor # None => id < cursor[1]}

\* C2: for every conversation c, cursor and limit N > 0, paged_list(c, cursor,
\* N) returns min(N, count) stored messages of c, in strictly descending id
\* order, all with an id below the cursor (when one is given), and every
\* eligible message it leaves out has a lower id than those it returns.
C2_MessageKeysetOrdering ==
    \A c \in ConversationIds, cursor \in Cursors, N \in Limits :
        LET items == MessagePagedList(c, cursor, N)[2]
            eligible == MessagesBelow(c, cursor)
            returned == {items[i].id : i \in 1 .. Len(items)}
        IN /\ Len(items) = Min(N, Cardinality(eligible))
           /\ \A i \in 1 .. Len(items) :
                  /\ items[i].conversation = c
                  /\ items[i].id \in eligible
                  /\ items[i] = CHAT_MESSAGE[items[i].id]
           /\ StrictlyDescending(Ids(items))
           /\ \A id \in eligible \ returned : \A r \in returned : id < r

\* C2 witness: a conversation with three messages beside a message of
\* another conversation with an id in between, so that a page of two cuts the
\* list and a cursor cuts it again.
C2_Witness ==
    \E c \in ConversationIds :
        /\ MessagesBelow(c, None) = {1, 3, 4}
        /\ 2 \in DOMAIN CHAT_MESSAGE /\ CHAT_MESSAGE[2].conversation # c
        /\ Ids(MessagePagedList(c, None, 2)[2]) = <<4, 3>>
        /\ Ids(MessagePagedList(c, Some(3), 2)[2]) = <<1>>

\* The scroll of C3: the pages of conversation c of size k from cursor on,
\* each page asked for with the next cursor the previous one returned, up to
\* the first empty page, concatenated.  A scroll that has not reached an
\* empty page after `pages` pages is cut there.
RECURSIVE MessageScroll(_, _, _, _)
MessageScroll(c, cursor, k, pages) ==
    LET page == MessagePagedList(c, cursor, k)
    IN IF page[2] = <<>> \/ pages = 0 THEN <<>>
       ELSE page[2] \o MessageScroll(c, page[1], k, pages - 1)

\* C3: with no write in between, the scroll of a conversation with any page
\* size k > 0 lists every message of the conversation exactly once, in
\* descending id order.
C3_MessageCursorContinuity ==
    \A c \in ConversationIds, k \in Limits :
        LET all == MessageScroll(c, None, k, MaxRepoCalls + 2)
        IN /\ {all[i] : i \in 1 .. Len(all)} =
                  {m \in Values(CHAT_MESSAGE) : m.conversation = c}
           /\ Len(all) = Cardinality(MessagesBelow(c, None))
           /\ StrictlyDescending(Ids(all))

\* C3 witness: a scroll of three pages (two, one, none) over a conversation
\* whose ids surround a message of another conversation.
C3_Witness ==
    \E c \in ConversationIds :
        /\ MessagesBelow(c, None) = {1, 2, 4}
        /\ 3 \in DOMAIN CHAT_MESSAGE /\ CHAT_MESSAGE[3].conversation # c
        /\ MessagePagedList(c, None, 2)[1] = Some(2)
        /\ MessagePagedList(c, Some(2), 2)[1] = Some(1)
        /\ MessagePagedList(c, Some(1), 2) = <<None, <<>>>>
        /\ Ids(MessageScroll(c, None, 2, 3)) = <<4, 2, 1>>

\* The conversations of user u.
ConversationsOf(u) == {c \in Values(CONVERSATION) : c.user = u}
\* items[i] is listed before items[j] in recency order: later updated_at
\* first, equal updated_at by ascending id.
ListedBefore(a, b) ==
    a.updated_at > b.updated_at \/ (a.updated_at = b.updated_at /\ a.id < b.id)

\* C4: paged_list(user, cursor, limit) on conversations returns as next cursor
\* the updated_at of the last conversation of the page (none for an empty
\* page), so that the page asked for with that cursor holds only conversations
\* strictly older than every conversation of the first page.
C4_NextCursorIsUpdatedAt ==
    \A u \in UserIds, cursor \in Cursors \ {Some(0)}, limit \in Limits :
        LET page == ConversationPagedList(u, cursor, limit)
            items == page[2]
        IN /\ page[1] = IF items = <<>> THEN None
                        ELSE Some(items[Len(items)].updated_at)
           /\ page[1] # None /\ page[1] # Some(0) =>
                  LET older == ConversationPagedList(u, page[1], limit)[2]
                  IN \A i \in 1 .. Len(items), j \in 1 .. Len(older) :
                         older[j].updated_at < items[i].updated_at

\* The scroll of C5: the pages of user u of size k from cursor on, each page
\* asked for with the updated_at of the last conversation of the previous
\* one, up to the first empty page, concatenated (cut after `pages` pages).
RECURSIVE ConversationScroll(_, _, _, _)
ConversationScroll(u, cursor, k, pages) ==
    LET items == ConversationPagedList(u, cursor, k)[2]
    IN IF items = <<>> \/ pages = 0 THEN <<>>
       ELSE items \o ConversationScroll(u, Some(items[Len(items)].updated_at),
                                        k, pages - 1)

\* C5: with no write in between, the scroll of a user's conversations with any
\* page size k > 0 lists every conversation of the user exactly once, also
\* when several of them share an updated_at.  (Stated for conversations
\* stamped after time 0, so that no cursor of the scroll is 0 and the `ts - 1`
\* of find is not in play.)
C5_ConversationScrollComplete ==
    \A u \in UserIds, k \in Limits :
        (\A c \in ConversationsOf(u) : c.updated_at > 0) =>
            LET all == ConversationScroll(u, None, k, MaxRepoCalls + 2)
            IN /\ {all[i] : i \in 1 .. Len(all)} = ConversationsOf(u)
               /\ Len(all) = Cardinality(ConversationsOf(u))

\* C6: paged_list(u, cursor, limit) returns only stored conversations of u,
\* later updated_at first and equal updated_at by ascending id, all with an
\* updated_at strictly below the cursor when one is given; and on the clock
\* that moves with every stamp, the conversation just inserted or updated is
\* the first item of paged_list(u, None, n).
C6_ConversationListingOrder ==
    /\ \A u \in UserIds, cursor \in Cursors, limit \in Limits \cup {0} :
           LET items == ConversationPagedList(u, cursor, limit)[2]
           IN /\ \A i \in 1 .. Len(items) :
                     /\ items[i].user = u
                     /\ MapGet(CONVERSATION, items[i].id) = Some(items[i])
                     /\ cursor # None => items[i].updated_at < cursor[1]
              /\ \A i \in 1 .. Len(items) - 1 : ListedBefore(items[i], items[i + 1])
    /\ (/\ cfg_test
        /\ ret.op \in {"conversation.insert", "conversation.update",
                       "conversation.upsert"}
        /\ IsOk(ret.res)) =>
           \A n \in Limits \cup {0} :
               LET items == ConversationPagedList(ret.res[2].user, None, n)[2]
               IN items # <<>> /\ items[1] = ret.res[2]

\* C7: MessageRepository::update fails with IllegalUpdate whatever message it
\* is given, stored or not, and leaves the message store, the conversation
\* index and the id cell as they were; it can be called in every state.
C7_MessageUpdateRejected ==
    /\ [](\A arg \in MessageArgs : ENABLED MessageUpdate(arg))
    /\ [][ret'.op = "message.update" =>
              /\ IsErr(ret'.res, IllegalUpdate)
              /\ UNCHANGED msgVars]_vars

\* C7 witness: an update was just rejected on the id of a stored message (a
\* message update of the model always names id 1).
C7_Witness ==
    /\ ret.op = "message.update"
    /\ IsErr(ret.res, IllegalUpdate)
    /\ MessageGet(1) # None
    /\ InsertIds = {1}

\* C8: update, and upsert on an existing id, of a conversation whose user
\* differs from the stored one fails with IllegalUpdate and changes neither
\* the store (updated_at included), nor the index, nor the clock; and no step
\* changes the user of a conversation that stays stored.
C8_OwnerPinned ==
    [][/\ \A arg \in ConversationArgs :
              (/\ ConversationGet(arg.id) # None
               /\ ConversationGet(arg.id)[1].user # arg.user
               /\ ConversationUpdate(arg) \/ ConversationUpsert(arg)) =>
                  /\ IsErr(ret'.res, IllegalUpdate)
                  /\ UNCHANGED <<convVars, clockVars>>
       /\ (ret'.op \in {"conversation.update", "conversation.upsert"}
           /\ IsErr(ret'.res, IllegalUpdate)) => UNCHANGED <<convVars, clockVars>>
       /\ \A id \in DOMAIN CONVERSATION \cap DOMAIN CONVERSATION' :
              CONVERSATION'[id].user = CONVERSATION[id].user]_vars

\* C8 witness: an update or upsert was just rejected for the owner, on a
\* conversation that has been updated before (its updated_at is not the one
\* of its insert in the test build, where ids 1.. are stamped 0..).
C8_Witness ==
    /\ ret.op \in {"conversation.update", "conversation.upsert"}
    /\ IsErr(ret.res, IllegalUpdate)
    /\ \E c \in Values(CONVERSATION) : cfg_test /\ c.updated_at >= c.id

\* C9: delete_by_conversation(A) leaves paged_list(A, None, 0) empty and get
\* empty for every former message of A, and leaves the messages and the index
\* entries of every other conversation B exactly as they were.
C9_CascadeDeleteIsolated ==
    [][\A A \in ConversationIds :
           MessageDeleteByConversation(A) =>
               /\ MessagePagedListIn(CHAT_MESSAGE', CHAT_MESSAGE_CONVERSATION_INDEX',
                                     A, None, 0) = <<None, <<>>>>
               /\ \A id \in MessagesBelow(A, None) :
                      MapGet(CHAT_MESSAGE', id) = None
               /\ \A B \in ConversationIds \ {A} :
                      /\ \A id \in MessagesBelow(B, None) :
                             MapGet(CHAT_MESSAGE', id) = MessageGet(id)
                      /\ {k \in CHAT_MESSAGE_CONVERSATION_INDEX' : k[1] = B} =
                             {k \in CHAT_MESSAGE_CONVERSATION_INDEX : k[1] = B}
                      /\ MessagePagedListIn(CHAT_MESSAGE',
                                            CHAT_MESSAGE_CONVERSATION_INDEX',
                                            B, None, 0) =
                             MessagePagedList(B, None, 0)
      ]_vars

\* C9 witness: a cascade delete has just removed the two messages of one
\* conversation and left the message of the other, whose id lies between
\* theirs, listed alone.
C9_Witness ==
    /\ ret.op = "message.delete_by_conversation"
    /\ ret.res[2] = <<3, 1>>
    /\ DOMAIN CHAT_MESSAGE = {2}
    /\ Len(MessagePagedList(CHAT_MESSAGE[2].conversation, None, 0)[2]) = 1

\* C10: each serial cell starts at 1; next_id returns what peek_next_id
\* returned just before it and leaves peek_next_id one higher (peek_next_id
\* reads the cell and writes nothing).
C10_SerialId ==
    /\ MessagePeekNextId = 1 /\ ConversationPeekNextId = 1 /\ UserPeekNextId = 1
    /\ [][/\ ret'.op = "message.next_id" =>
                 /\ ret'.res[2] = MessagePeekNextId
                 /\ MessagePeekNextId' = MessagePeekNextId + 1
          /\ ret'.op = "conversation.next_id" =>
                 /\ ret'.res[2] = ConversationPeekNextId
                 /\ ConversationPeekNextId' = ConversationPeekNextId + 1
          /\ ret'.op = "user.next_id" =>
                 /\ ret'.res[2] = UserPeekNextId
                 /\ UserPeekNextId' = UserPeekNextId + 1]_vars

\* C10 witness: the conversation cell was just drawn a second time, after a
\* draw of the message cell (the calls of generated_id_should_consistent).
C10_Witness ==
    /\ ret.op = "conversation.next_id" /\ ret.res[2] = 2
    /\ ConversationPeekNextId = 3
    /\ MessagePeekNextId = 2

\* C11: insert stores its argument under the id drawn from the kind's serial
\* cell and, for messages and conversations, stamped with the clock, whatever
\* id and timestamp / updated_at the argument carried, the other fields as
\* given; get of the returned id is the returned entity, and get of the
\* argument's id is that entity only when the two ids are equal.
C11_RepositoryAssignsIdentity ==
    [][/\ ret'.op = "message.insert" =>
              \A arg \in MessageArgs : MessageInsert(arg) =>
                  LET new == ret'.res[2]
                  IN /\ IsOk(ret'.res)
                     /\ new = [arg EXCEPT !.id = MessagePeekNextId,
                                          !.timestamp = timestamp]
                     /\ MapGet(CHAT_MESSAGE', new.id) = Some(new)
                     /\ (MapGet(CHAT_MESSAGE', arg.id) = Some(new)) <=>
                            (arg.id = MessagePeekNextId)
       /\ ret'.op = "conversation.insert" =>
              \A arg \in ConversationArgs : ConversationInsert(arg) =>
                  LET new == ret'.res[2]
                  IN /\ IsOk(ret'.res)
                     /\ new = [arg EXCEPT !.id = ConversationPeekNextId,
                                          !.updated_at = timestamp]
                     /\ MapGet(CONVERSATION', new.id) = Some(new)
                     /\ (MapGet(CONVERSATION', arg.id) = Some(new)) <=>
                            (arg.id = ConversationPeekNextId)
       /\ ret'.op = "user.insert" =>
              \A arg \in UserArgs : UserInsert(arg) =>
                  LET new == ret'.res[2]
                  IN /\ IsOk(ret'.res)
                     /\ new = [arg EXCEPT !.id = UserPeekNextId]
                     /\ MapGet(USER', new.id) = Some(new)
                     /\ (MapGet(USER', arg.id) = Some(new)) <=>
                            (arg.id = UserPeekNextId)]_vars

\* C11 witness: a message passed with id 1 and timestamp 123 was just stored
\* under id 2 with the clock's stamp, while id 1 holds another message.
C11_Witness ==
    /\ ret.op = "message.insert" /\ IsOk(ret.res)
    /\ InsertIds = {1}
    /\ ret.res[2].id = 2 /\ ret.res[2].timestamp < 123
    /\ MessageGet(2) = Some(ret.res[2])
    /\ MessageGet(1) # None /\ MessageGet(1) # Some(ret.res[2])

\* The store after an insert that returned `res`: one more entity, under the
\* cell's value `peek`, an id the store did not hold, and every entity it
\* held as it was.
FreshlyInserted(res, peek, store, store_after) ==
    /\ IsOk(res)
    /\ res[2].id = peek
    /\ peek \notin DOMAIN store
    /\ DOMAIN store_after = DOMAIN store \cup {peek}
    /\ \A id \in DOMAIN store : store_after[id] = store[id]

\* C12: every insert returns Ok (never Conflict) with an id no entity of the
\* kind has or ever had: every stored id lies below the kind's serial cell,
\* the cell never goes down, and an insert stores under the cell's value,
\* which no entity holds, keeping every stored entity; so no insert overwrites
\* and the id of a deleted entity does not come back.
C12_InsertFreshId ==
    /\ [](/\ \A id \in DOMAIN CHAT_MESSAGE : id < MessagePeekNextId
          /\ \A id \in DOMAIN CONVERSATION : id < ConversationPeekNextId
          /\ \A id \in DOMAIN USER : id < UserPeekNextId)
    /\ [][/\ MessagePeekNextId' >= MessagePeekNextId
          /\ ConversationPeekNextId' >= ConversationPeekNextId
          /\ UserPeekNextId' >= UserPeekNextId
          /\ ret'.op = "message.insert" =>
                 FreshlyInserted(ret'.res, MessagePeekNextId,
                                 CHAT_MESSAGE, CHAT_MESSAGE')
          /\ ret'.op = "conversation.insert" =>
                 FreshlyInserted(ret'.res, ConversationPeekNextId,
                                 CONVERSATION, CONVERSATION')
          /\ ret'.op = "user.insert" =>
                 FreshlyInserted(ret'.res, UserPeekNextId, USER, USER')]_vars

\* C12 witness: a user was just inserted under id 2 while id 1, handed out
\* before (to a user since deleted, or to a caller of next_id), holds nothing.
C12_Witness ==
    /\ ret.op = "user.insert" /\ IsOk(ret.res)
    /\ DOMAIN USER = {2}
    /\ UserPeekNextId = 3

\* The ids a delete can be asked for: every id handed out and some beyond.
DeleteIds == 1 .. MaxCalls + MaxRepoCalls

\* C13: delete(id) on the message, conversation or user repository, when the
\* primary store holds nothing under id, returns NotFound and leaves the
\* store, the index and the serial cell of the kind as they were.
C13_DeleteAbsent ==
    [][/\ ret'.op = "message.delete" =>
              \A id \in DeleteIds :
                  (MessageGet(id) = None /\ MessageDelete(id)) =>
                      IsErr(ret'.res, NotFound) /\ UNCHANGED msgVars
       /\ ret'.op = "conversation.delete" =>
              \A id \in DeleteIds :
                  (ConversationGet(id) = None /\ ConversationDelete(id)) =>
                      IsErr(ret'.res, NotFound) /\ UNCHANGED convVars
       /\ ret'.op = "user.delete" =>
              \A id \in DeleteIds :
                  (UserGet(id) = None /\ UserDelete(id)) =>
                      IsErr(ret'.res, NotFound) /\ UNCHANGED userVars]_vars

\* C13 witness: a delete just returned NotFound on a store that holds a
\* message (under an id other than the one asked for).
C13_Witness ==
    /\ ret.op = "message.delete" /\ IsErr(ret.res, NotFound)
    /\ CHAT_MESSAGE # <<>>

\* The store after delete(id) returned `res` on an entity it held: the entity
\* is gone and every other one is as it was.
OnlyDeleted(res, id, store, store_after) ==
    /\ res = Ok(id)
    /\ DOMAIN store_after = DOMAIN store \ {id}
    /\ \A other \in DOMAIN store_after : store_after[other] = store[other]

\* C14: delete(id) of a stored entity returns Ok(id), leaves every other
\* entity of the kind and its index key as they were, and afterwards get(id)
\* is empty and no paged_list (any criteria, cursor and limit) and no
\* get_user returns the entity.
C14_DeleteExisting ==
    /\ [][/\ ret'.op = "message.delete" =>
                 \A id \in DeleteIds :
                     (MessageGet(id) # None /\ MessageDelete(id)) =>
                         /\ OnlyDeleted(ret'.res, id, CHAT_MESSAGE, CHAT_MESSAGE')
                         /\ {k \in CHAT_MESSAGE_CONVERSATION_INDEX' : k[2] # id} =
                                {k \in CHAT_MESSAGE_CONVERSATION_INDEX : k[2] # id}
          /\ ret'.op = "conversation.delete" =>
                 \A id \in DeleteIds :
                     (ConversationGet(id) # None /\ ConversationDelete(id)) =>
                         /\ OnlyDeleted(ret'.res, id, CONVERSATION, CONVERSATION')
                         /\ {k \in CONVERSATION_USER_INDEX' : k[3] # id} =
                                {k \in CONVERSATION_USER_INDEX : k[3] # id}
          /\ ret'.op = "user.delete" =>
                 \A id \in DeleteIds :
                     (UserGet(id) # None /\ UserDelete(id)) =>
                         /\ OnlyDeleted(ret'.res, id, USER, USER')
                         /\ {k \in USER_PRINCIPAL_INDEX' : k[2] # id} =
                                {k \in USER_PRINCIPAL_INDEX : k[2] # id}]_vars
    /\ []((ret.op = "message.delete" /\ IsOk(ret.res)) =>
              /\ MessageGet(ret.res[2]) = None
              /\ \A c \in ConversationIds, cursor \in Cursors, limit \in {0} \cup Limits :
                     \A m \in Values(MessagePagedList(c, cursor, limit)[2]) :
                         m.id # ret.res[2])
    /\ []((ret.op = "conversation.delete" /\ IsOk(ret.res)) =>
              /\ ConversationGet(ret.res[2]) = None
              /\ \A u \in UserIds, cursor \in Cursors, limit \in {0} \cup Limits :
                     \A c \in Values(ConversationPagedList(u, cursor, limit)[2]) :
                         c.id # ret.res[2])
    /\ []((ret.op = "user.delete" /\ IsOk(ret.res)) =>
              /\ UserGet(ret.res[2]) = None
              /\ \A p \in Principals :
                     GetUser(p) # None => GetUser(p)[1].id # ret.res[2])

\* C14 witness: message 1 was just deleted from a conversation that keeps
\* its other message, which is still listed.
C14_Witness ==
    /\ ret.op = "message.delete" /\ ret.res = Ok(1)
    /\ DOMAIN CHAT_MESSAGE = {2}
    /\ Ids(MessagePagedList(CHAT_MESSAGE[2].conversation, None, 0)[2]) = <<2>>
    /\ \A c \in ConversationIds : MessageFind(c, None, 0) \in {<<>>, <<2>>}

Range(s) == {s[i] : i \in 1 .. Len(s)}
\* The cursors that tell the listings of a state apart: none, and every rank
\* from 0 to one above the highest `top` the store can hold (a higher cursor
\* lists what that one lists).
CursorsUpTo(top) == {None} \cup {Some(k) : k \in 0 .. top + 1}
\* The limits that tell apart the pages of a range of `matches` entries: a
\* limit above matches + 1 gives what matches + 1 gives.
LimitsFor(matches) == 1 .. matches + 1
\* The conversations of user u stamped strictly before the cursor.
ConversationsBelow(u, cursor) ==
    {id \in DOMAIN CONVERSATION :
        /\ CONVERSATION[id].user = u
        /\ cursor # None => CONVERSATION[id].updated_at < cursor[1]}

\* C15: for the message and the conversation find and paged_list, a limit
\* n > 0 gives the first min(n, matches) entries of what limit 0 gives, in
\* the same order, and limit 0 gives the whole scanned range: every stored
\* entity of the criteria below the cursor is in it, so it is never empty
\* when there is a match.
C15_LimitSemantics ==
    /\ \A c \in ConversationIds, cursor \in CursorsUpTo(MessagePeekNextId - 1) :
           LET full == MessageFind(c, cursor, 0)
               page == MessagePagedList(c, cursor, 0)[2]
           IN /\ MessagesBelow(c, cursor) \subseteq Range(full)
              /\ Ids(page) = full
              /\ \A n \in LimitsFor(Len(full)) :
                     /\ MessageFind(c, cursor, n) =
                            SubSeq(full, 1, Min(n, Len(full)))
                     /\ MessagePagedList(c, cursor, n)[2] =
                            SubSeq(page, 1, Min(n, Len(page)))
    /\ \A u \in UserIds, cursor \in CursorsUpTo(TIMESTAMP) :
           LET full == ConversationFind(u, cursor, 0)
               page == ConversationPagedList(u, cursor, 0)[2]
           IN /\ ConversationsBelow(u, cursor) \subseteq Range(full)
              /\ Ids(page) = full
              /\ \A n \in LimitsFor(Len(full)) :
                     /\ ConversationFind(u, cursor, n) =
                            SubSeq(full, 1, Min(n, Len(full)))
                     /\ ConversationPagedList(u, cursor, n)[2] =
                            SubSeq(page, 1, Min(n, Len(page)))

\* C15 witness: a conversation holds two messages, of which limit 1 lists
\* one and limit 0 both, and a user has a conversation.
C15_Witness ==
    /\ \E c \in ConversationIds : /\ Len(MessageFind(c, None, 0)) = 2
                                  /\ Len(MessageFind(c, None, 1)) = 1
                                  /\ Len(MessagePagedList(c, None, 3)[2]) = 2
    /\ \E u \in UserIds : Len(ConversationFind(u, None, 0)) = 1

\* C16: MessageRepository::paged_list returns <<next cursor, items>> where
\* the next cursor is the id of the last item of the page, and is none
\* exactly when the page is empty, for every conversation, cursor and limit
\* (0 included).
C16_MessageNextCursor ==
    \A c \in ConversationIds, cursor \in CursorsUpTo(MessagePeekNextId - 1) :
        \A limit \in {0} \cup LimitsFor(Cardinality(MessagesBelow(c, cursor))) :
            LET r == MessagePagedList(c, cursor, limit)
                next_cursor == r[1]
                items == r[2]
            IN /\ Len(r) = 2
               /\ (next_cursor = None) <=> (items = <<>>)
               /\ items # <<>> =>
                      /\ next_cursor = Some(items[Len(items)].id)
                      /\ \A i \in 1 .. Len(items) : items[i].id >= next_cursor[1]

\* C16 witness: a page of two messages with next cursor 1, the id of its
\* last item, and an empty page with no next cursor after it.
C16_Witness ==
    \E c \in ConversationIds :
        /\ Ids(MessagePagedList(c, None, 2)[2]) = <<3, 1>>
        /\ MessagePagedList(c, None, 2)[1] = Some(1)
        /\ MessagePagedList(c, Some(1), 2) = <<None, <<>>>>

\* C17: in every state reached through UserRepository insert, update and
\* delete, no two stored users have the same identity.
C17_IdentityUnique ==
    \A a \in DOMAIN USER, b \in DOMAIN USER :
        USER[a].identity = USER[b].identity => a = b

\* The stored users whose identity is p.
UsersOf(p) == {id \in DOMAIN USER : USER[id].identity = p}
Max(S) == CHOOSE x \in S : \A y \in S : y <= x

\* C18: get_user(p) is empty when no stored user has identity p, and is
\* otherwise the stored user of the greatest id among those of identity p
\* (the last match of the index walk); so it never returns a user of another
\* identity or one that was deleted.
C18_IdentityLookup ==
    \A p \in Principals :
        /\ UsersOf(p) = {} => GetUser(p) = None
        /\ UsersOf(p) # {} => GetUser(p) = Some(USER[Max(UsersOf(p))])
        /\ GetUser(p) # None =>
               /\ GetUser(p)[1].identity = p
               /\ UserGet(GetUser(p)[1].id) = GetUser(p)

\* C18 witness: two users share an identity and the lookup gives the later
\* one, while the other identity, whose only user was deleted, gives nothing.
C18_Witness ==
    \E p \in Principals, q \in Principals :
        /\ p # q
        /\ UsersOf(p) = {1, 3}
        /\ GetUser(p) = Some(USER[3])
        /\ ret.op = "user.delete" /\ ret.res = Ok(2)
        /\ GetUser(q) = None

\* C19: a call of UserRepository::update leaves the identity stored under
\* an existing user id as it was (the identity the user was created with);
\* it changes the profile fields only.
C19_IdentityNotUpdatable ==
    [][ret'.op = "user.update" =>
           \A id \in DOMAIN USER \cap DOMAIN USER' :
               USER'[id].identity = USER[id].identity]_vars

\* C20: after an upsert(c) that returned Ok, get(c.id) is a conversation
\* whose name is c.name, whether a conversation with id c.id was stored
\* before the call (update path) or not (insert path).
C20_UpsertRetrievable ==
    [][ret'.op = "conversation.upsert" =>
           \A c \in ConversationArgs :
               (ConversationUpsert(c) /\ IsOk(ret'.res)) =>
                   /\ MapGet(CONVERSATION', c.id) # None
                   /\ MapGet(CONVERSATION', c.id)[1].name = c.name]_vars

\* The builds of `ts - 1`: with and without overflow checks.
OverflowChecks == BOOLEAN

\* C21: no call aborts on what the caller passes: paged_list on messages and
\* on conversations returns for every cursor (0 and 1 included) and limit
\* (0 included), in every build, and with a cursor at or below the lowest
\* stored rank of the criteria the page is empty and the next cursor none.
C21_NoAbortOnCallerInput ==
    /\ \A c \in ConversationIds, cursor \in CursorsUpTo(MessagePeekNextId - 1) :
           \A limit \in {0} \cup LimitsFor(Cardinality(MessagesBelow(c, None))) :
               (/\ cursor # None
                /\ \A id \in MessagesBelow(c, None) : cursor[1] <= id) =>
                   MessagePagedList(c, cursor, limit) = <<None, <<>>>>
    /\ \A u \in UserIds, cursor \in CursorsUpTo(TIMESTAMP) :
           \A limit \in {0} \cup LimitsFor(Cardinality(ConversationsBelow(u, None))) :
               /\ \A overflow_checks \in OverflowChecks :
                      ~ConversationFindPanics(cursor, overflow_checks)
               /\ (/\ cursor # None
                   /\ \A id \in ConversationsBelow(u, None) :
                          cursor[1] <= CONVERSATION[id].updated_at) =>
                      ConversationPagedList(u, cursor, limit) = <<None, <<>>>>

\* C22: ConversationRepository::delete leaves the message store, the message
\* conversation index and the message id cell as they were, so the messages
\* filed under the deleted conversation's id are still listed by the message
\* paged_list; only calls on the message repository change the messages.
C22_ConversationDeleteNoCascade ==
    /\ [][/\ ret'.op = "conversation.delete" => UNCHANGED msgVars
          /\ (CHAT_MESSAGE' # CHAT_MESSAGE
              \/ CHAT_MESSAGE_CONVERSATION_INDEX' # CHAT_MESSAGE_CONVERSATION_INDEX) =>
                 ret'.op \in {"message.insert", "message.delete",
                              "message.delete_by_conversation"}]_vars
    /\ []((ret.op = "conversation.delete" /\ IsOk(ret.res)) =>
              \A c \in ConversationIds :
                  Range(Ids(MessagePagedList(c, None, 0)[2])) = MessagesBelow(c, None))

\* C22 witness: conversation 1 was just deleted and is gone, and the message
\* filed under conversation id 1 is still listed.
C22_Witness ==
    /\ ret.op = "conversation.delete" /\ ret.res = Ok(1)
    /\ ConversationGet(1) = None
    /\ Len(MessagePagedList(1, None, 0)[2]) = 1

\* The stores, indexes and serial cells of the three repositories.
storeVars == <<msgVars, convVars, userVars>>
\* The call A, made once more, can end in other stores than it starts from.
ChangesAgain(A) == ENABLED (A /\ storeVars' # storeVars)

\* C23: every call other than insert (update, upsert, delete,
\* delete_by_conversation, on each repository) made twice in succession with
\* the same argument leaves stores, indexes and serial cells as made once:
\* right after the call, the same call changes none of them.
C23_RetrySafe ==
    [][/\ \A arg \in MessageArgs :
              MessageUpdate(arg) => ~ChangesAgain(MessageUpdate(arg))'
       /\ \A id \in DeleteIds :
              MessageDelete(id) => ~ChangesAgain(MessageDelete(id))'
       /\ \A c \in ConversationIds :
              MessageDeleteByConversation(c) =>
                  ~ChangesAgain(MessageDeleteByConversation(c))'
       /\ \A arg \in ConversationArgs :
              /\ ConversationUpdate(arg) => ~ChangesAgain(ConversationUpdate(arg))'
              /\ ConversationUpsert(arg) => ~ChangesAgain(ConversationUpsert(arg))'
       /\ \A id \in DeleteIds :
              ConversationDelete(id) => ~ChangesAgain(ConversationDelete(id))'
       /\ \A arg \in UserArgs :
              UserUpdate(arg) => ~ChangesAgain(UserUpdate(arg))'
       /\ \A id \in DeleteIds :
              UserDelete(id) => ~ChangesAgain(UserDelete(id))']_vars

\* C24: delete_by_conversation(c) returns Ok with exactly the ids of the
\* messages stored under c just before the call, each once, in descending
\* order; for a conversation without messages the list is empty and nothing
\* changes.
C24_DeleteByConversationResult ==
    [][ret'.op = "message.delete_by_conversation" =>
           /\ IsOk(ret'.res)
           /\ \A c \in ConversationIds :
                  MessageDeleteByConversation(c) =>
                      /\ Range(ret'.res[2]) = MessagesBelow(c, None)
                      /\ StrictlyDescending(ret'.res[2])
                      /\ Len(ret'.res[2]) = Cardinality(MessagesBelow(c, None))
                      /\ MessagesBelow(c, None) = {} =>
                             /\ ret'.res[2] = <<>>
                             /\ UNCHANGED <<msgVars, clockVars>>]_vars

\* C24 witness: a cascade delete has just returned the ids 2 and 1 of the
\* two messages of a conversation, highest first, and the third message,
\* of the other conversation, is stored.
C24_Witness ==
    /\ ret.op = "message.delete_by_conversation"
    /\ ret.res[2] = <<2, 1>>
    /\ DOMAIN CHAT_MESSAGE = {3}

\* C25: ConversationRepository::update and UserRepository::update with an id
\* the primary store does not hold return NotFound and leave the store, the
\* index and the serial cell of the kind (and the clock) as they were: an
\* update creates nothing.
C25_UpdateAbsent ==
    /\ \A arg \in ConversationArgs :
           ConversationGet(arg.id) = None =>
               /\ ENABLED ConversationUpdate(arg)
               /\ ~ENABLED (/\ ConversationUpdate(arg)
                            /\ ~(/\ IsErr(ret'.res, NotFound)
                                 /\ UNCHANGED <<convVars, clockVars>>))
    /\ \A arg \in UserArgs :
           UserGet(arg.id) = None =>
               /\ ENABLED UserUpdate(arg)
               /\ ~ENABLED (/\ UserUpdate(arg)
                            /\ ~(/\ IsErr(ret'.res, NotFound)
                                 /\ UNCHANGED <<userVars, clockVars>>))

\* C25 witness: an update of a user id that is not stored (deleted, or not
\* yet handed out) has just returned NotFound, next to a stored user.
C25_Witness ==
    /\ ret.op = "user.update" /\ IsErr(ret.res, NotFound)
    /\ USER # <<>>
    /\ UserGet(UserPeekNextId) = None

\* C26: with no limit, the message and the conversation find return exactly
\* the entries of the criteria whose rank (message id, conversation
\* updated_at) lies between 1 and the upper bound, which is cursor - 1 under
\* a cursor and the highest rank without one; an entry of rank 0 is never
\* returned.
C26_ScanBounds ==
    /\ \A c \in ConversationIds, cursor \in CursorsUpTo(MessagePeekNextId - 1) :
           /\ Range(MessageFind(c, cursor, 0)) =
                  {k[2] : k \in {x \in CHAT_MESSAGE_CONVERSATION_INDEX :
                                    /\ x[1] = c
                                    /\ 1 <= x[2]
                                    /\ cursor # None => x[2] <= cursor[1] - 1}}
           /\ 0 \notin Range(MessageFind(c, cursor, 0))
    /\ \A u \in UserIds, cursor \in CursorsUpTo(TIMESTAMP) :
           /\ Range(ConversationFind(u, cursor, 0)) =
                  {k[3] : k \in {x \in CONVERSATION_USER_INDEX :
                                    /\ x[1] = u
                                    /\ 1 <= x[2]
                                    /\ cursor # None => x[2] <= cursor[1] - 1}}
           /\ \A id \in Range(ConversationFind(u, cursor, 0)) :
                  CONVERSATION[id].updated_at # 0

\* The calls of one repository, and the three serial id cells.
MessageOps ==
    {"message.next_id", "message.insert", "message.update", "message.delete",
     "message.delete_by_conversation"}
ConversationOps ==
    {"conversation.next_id", "conversation.insert", "conversation.update",
     "conversation.upsert", "conversation.delete"}
UserOps == {"user.next_id", "user.insert", "user.update", "user.delete"}
idCells == <<NEXT_CHAT_MESSAGE_ID, NEXT_CONVERSATION_ID, NEXT_USER_ID>>

\* C27: next_id and insert on the message, conversation or user repository
\* advance the id cell of their own kind by one and leave the cells of the
\* other two kinds as they were (no call of a repository touches another
\* kind's cell), and a call that fails with NotFound or IllegalUpdate
\* advances no cell.
C27_GeneratorsIndependent ==
    [][/\ ret'.op \in MessageOps => UNCHANGED <<NEXT_CONVERSATION_ID, NEXT_USER_ID>>
       /\ ret'.op \in ConversationOps => UNCHANGED <<NEXT_CHAT_MESSAGE_ID, NEXT_USER_ID>>
       /\ ret'.op \in UserOps => UNCHANGED <<NEXT_CHAT_MESSAGE_ID, NEXT_CONVERSATION_ID>>
       /\ ret'.op \in {"message.next_id", "message.insert"} =>
              NEXT_CHAT_MESSAGE_ID' = NEXT_CHAT_MESSAGE_ID + 1
       /\ ret'.op \in {"conversation.next_id", "conversation.insert"} =>
              NEXT_CONVERSATION_ID' = NEXT_CONVERSATION_ID + 1
       /\ ret'.op \in {"user.next_id", "user.insert"} =>
              NEXT_USER_ID' = NEXT_USER_ID + 1
       /\ (IsErr(ret'.res, NotFound) \/ IsErr(ret'.res, IllegalUpdate)) =>
              UNCHANGED idCells]_vars

\* C27 witness: after one next_id on the message repository, one insert
\* of a user and one insert of a conversation, each kind has handed out its
\* id 1 and each cell reads 2.
C27_Witness ==
    /\ ret.op \in {"conversation.insert", "user.insert", "message.next_id"}
    /\ idCells = <<2, 2, 2>>
    /\ CHAT_MESSAGE = <<>>
    /\ DOMAIN CONVERSATION = {1}
    /\ DOMAIN USER = {1}

\* C28: after UserRepository::update(u) returned Ok, get(u.id) is u as it
\* was passed (identity, fullname and resume), the identity index holds one
\* key for u.id, (u.identity, u.id), and when the update changed the
\* identity the key of the old identity is gone.
C28_UpdatedUserResolvable ==
    /\ []((ret.op = "user.update" /\ IsOk(ret.res)) =>
              LET u == ret.res[2]
              IN /\ UserGet(u.id) = Some(u)
                 /\ {k \in USER_PRINCIPAL_INDEX : k[2] = u.id} =
                        {<<u.identity, u.id>>})
    /\ [][(ret'.op = "user.update" /\ IsOk(ret'.res)) =>
              LET u == ret'.res[2]
                  old == USER[u.id]
              IN /\ u.id \in DOMAIN USER
                 /\ USER' = MapInsert(USER, u.id, u)
                 /\ old.identity # u.identity =>
                        <<old.identity, u.id>> \notin USER_PRINCIPAL_INDEX'
                 /\ USER_PRINCIPAL_INDEX' =
                        (USER_PRINCIPAL_INDEX \ {<<old.identity, u.id>>})
                            \cup {<<u.identity, u.id>>}]_vars

\* C28 witness: user 1 has just been updated and is stored with identity 2
\* and the second name, next to a user 2 of identity 1: the two identities
\* the arguments can carry are both taken, each by one user.
C28_Witness ==
    /\ ret.op = "user.update" /\ IsOk(ret.res)
    /\ ret.res[2].id = 1 /\ ret.res[2].identity = 2
    /\ DOMAIN USER = {1, 2}
    /\ USER[2].identity = 1
    /\ USER_PRINCIPAL_INDEX = {<<2, 1>>, <<1, 2>>}

\* C29: the repository calls of different requests interleave call by call:
\* a conversation call and a message call are separate steps (no call of
\* one repository writes the other's stores), and between any two calls
\* every entity of a primary store has its index key, so no call sees a
\* half-written entity. A conversation stored by one request while its
\* first message is not yet inserted is what the witness reaches.
C29_CallsAtomicCompositionNot ==
    /\ [](/\ \A id \in DOMAIN CHAT_MESSAGE :
                <<CHAT_MESSAGE[id].conversation, id>> \in CHAT_MESSAGE_CONVERSATION_INDEX
          /\ \A id \in DOMAIN CONVERSATION :
                <<CONVERSATION[id].user, CONVERSATION[id].updated_at, id>>
                    \in CONVERSATION_USER_INDEX
          /\ \A id \in DOMAIN USER :
                <<USER[id].identity, id>> \in USER_PRINCIPAL_INDEX)
    /\ [][/\ ret'.op \in ConversationOps => UNCHANGED msgVars
          /\ ret'.op \in MessageOps => UNCHANGED convVars]_vars

\* C29 witness: conversation 1 is stored, another request's message insert
\* (into conversation 2) has just run, and the message paged_list of
\* conversation 1 is empty: the insert of its first message is still to come.
C29_Witness ==
    /\ ConversationGet(1) # None
    /\ ret.op = "message.insert" /\ IsOk(ret.res)
    /\ ret.res[2].conversation = 2
    /\ MessagePagedList(1, None, 0) = <<None, <<>>>>
    /\ MessagePagedList(2, None, 0)[2] # <<>>

\* C30: a caller pages through a conversation with the cursors paged_list
\* returns, while other calls insert and delete messages between the pages.
\* The ids of all its pages, in the order returned, are strictly descending
\* (none twice, each page below the one before), and every message the
\* conversation held at the first page and that lies above the caller's
\* cursor (all of them once the scan is over) has been returned or has been
\* deleted since.
C30_PagingUnderWrites ==
    /\ StrictlyDescending(scan.seen)
    /\ scan.phase = "paging" =>
           /\ scan.cursor # None
           /\ scan.seen # <<>>
           /\ scan.cursor[1] = scan.seen[Len(scan.seen)]
    /\ \A id \in scan.first :
           (scan.cursor # None => id >= scan.cursor[1]) =>
               \/ id \in Range(scan.seen)
               \/ id \notin DOMAIN CHAT_MESSAGE
    /\ \A id \in Range(scan.seen) \cap DOMAIN CHAT_MESSAGE :
           CHAT_MESSAGE[id].conversation = scan.conversation

\* C30 witness: the scan of a conversation that held messages 1 and 2 at the
\* first page is over, having returned 2 only: message 3 was inserted into
\* the conversation after the first page and no page returned it, and
\* message 1 was deleted before the page it would have been on.
C30_Witness ==
    /\ scan.phase = "done"
    /\ scan.limit = 1
    /\ scan.first = {1, 2}
    /\ scan.seen = <<2>>
    /\ DOMAIN CHAT_MESSAGE = {2, 3}
    /\ CHAT_MESSAGE[3].conversation = scan.conversation

\* The message ids handed out so far.
IssuedMessageIds == 1 .. NEXT_CHAT_MESSAGE_ID - 1

\* C31: over every call of the three repositories (clear_indexes included),
\* a stored message stays as the insert that created it returned it
\* (conversation, content, role, timestamp) until a delete or
\* delete_by_conversation removes it; a message appears only by an insert,
\* under the id the cell held; and an id that was handed out and is not
\* stored (deleted, or skipped by next_id) is never stored again: get(id)
\* stays none.
C31_MessageWriteOnce ==
    /\ [](\A id \in DOMAIN CHAT_MESSAGE : id \in IssuedMessageIds)
    /\ [][/\ NEXT_CHAT_MESSAGE_ID' >= NEXT_CHAT_MESSAGE_ID
          /\ \A id \in DOMAIN CHAT_MESSAGE \cap DOMAIN CHAT_MESSAGE' :
                 CHAT_MESSAGE'[id] = CHAT_MESSAGE[id]
          /\ \A id \in DOMAIN CHAT_MESSAGE \ DOMAIN CHAT_MESSAGE' :
                 /\ ret'.op \in {"message.delete", "message.delete_by_conversation"}
                 /\ IsOk(ret'.res)
          /\ \A id \in DOMAIN CHAT_MESSAGE' \ DOMAIN CHAT_MESSAGE :
                 /\ ret'.op = "message.insert"
                 /\ id = NEXT_CHAT_MESSAGE_ID
                 /\ ret'.res = Ok(CHAT_MESSAGE'[id])
          /\ \A id \in IssuedMessageIds :
                 MapGet(CHAT_MESSAGE, id) = None => MapGet(CHAT_MESSAGE', id) = None]_vars

\* C31 witness: message 1 was inserted and deleted, and the insert after the
\* delete has just stored its message as id 2: get(1) is none.
C31_Witness ==
    /\ ret.op = "message.insert" /\ IsOk(ret.res)
    /\ ret.res[2].id = 2
    /\ DOMAIN CHAT_MESSAGE = {2}
    /\ MessageGet(1) = None
    /\ MessageGet(2) = Some(ret.res[2])

\* C32: clear_indexes of a repository empties that repository's index and
\* leaves its primary store, its id cell and everything else as they were;
\* after UserRepository::clear_indexes, get_user returns none for every
\* identity while get(id) returns every stored user as before.
C32_ClearIndexes ==
    /\ [][/\ ret'.op = "message.clear_indexes" =>
                 /\ CHAT_MESSAGE_CONVERSATION_INDEX' = {}
                 /\ UNCHANGED <<NEXT_CHAT_MESSAGE_ID, CHAT_MESSAGE>>
                 /\ UNCHANGED <<clockVars, convVars, userVars>>
          /\ ret'.op = "conversation.clear_indexes" =>
                 /\ CONVERSATION_USER_INDEX' = {}
                 /\ UNCHANGED <<NEXT_CONVERSATION_ID, CONVERSATION>>
                 /\ UNCHANGED <<clockVars, msgVars, userVars>>
          /\ ret'.op = "user.clear_indexes" =>
                 /\ USER_PRINCIPAL_INDEX' = {}
                 /\ UNCHANGED <<NEXT_USER_ID, USER>>
                 /\ UNCHANGED <<clockVars, msgVars, convVars>>
                 /\ \A id \in DOMAIN USER : MapGet(USER', id) = Some(USER[id])]_vars
    /\ [](ret.op = "user.clear_indexes" =>
              /\ \A p \in Principals : GetUser(p) = None
              /\ \A p \in Principals : UserFind(p, None, 0) = <<>>)
    /\ [](ret.op = "message.clear_indexes" =>
              \A c \in ConversationIds : MessageFind(c, None, 0) = <<>>)
    /\ [](ret.op = "conversation.clear_indexes" =>
              \A u \in UserIds : ConversationFind(u, None, 0) = <<>>)

\* C32 witness: the identity index has just been cleared with two users
\* stored: no identity resolves, and get(1) and get(2) return the users.
C32_Witness ==
    /\ ret.op = "user.clear_indexes"
    /\ DOMAIN USER = {1, 2}
    /\ USER_PRINCIPAL_INDEX = {}
    /\ \A p \in Principals : GetUser(p) = None
    /\ UserGet(1) = Some(USER[1]) /\ UserGet(2) = Some(USER[2])

====
